---- MODULE Spec2Model ----
(***************************************************************************)
(* Model of the XO language server (src/server/server.ts): the request     *)
(* queue, the protocol handlers, the debounced lint trigger and the        *)
(* prefix/suffix diff of the formatting handler.                           *)
(*                                                                         *)
(* Texts are sequences of one-character strings.  A range of a TextEdit is *)
(* kept as the pair of offsets handed to positionAt.  An optional value is *)
(* a sequence of length 0 (undefined) or 1.                                *)
(***************************************************************************)
EXTENDS Integers, Sequences, FiniteSets, TLC

VARIABLES
    objects,         \* the TextDocument objects created so far, each [uri, version]
    documents,       \* this.documents: uri -> index in objects of its TextDocument, 0 = not open
    queue,           \* this.queue.jobs: the tasks pushed and not yet started
    running,         \* the queue's pending jobs: tasks started and not settled
    submitted,       \* number of tasks pushed so far
    started,         \* number of tasks started so far
    lastDone,        \* the execution record of the task that settled in the last step, or Idle
    currentDebounce, \* this.currentDebounce
    timer,           \* the live debounced instance has a timer pending
    lastArgs,        \* the live debounced instance's lastArgs
    result,          \* the live debounced instance's result: id of a lint, 0 = undefined
    orphans,         \* pending trailing calls of replaced debounced instances
    lints,           \* calls of lintDocument in flight
    nextLint,        \* number of lintDocument calls made so far
    documentFixes,   \* this.documentFixes, per uri
    foldersCache,    \* this.foldersCache: the folders it has an entry for
    xoCache,         \* this.xoCache: the folders it has an entry for
    configurationCache, \* this.configurationCache: the folders it has an entry for
    published,       \* per uri, the diagnostics last sent with sendDiagnostics
    diffIn,          \* input of the diff computation: <<string0, string1>>
    diffOut,         \* its result: <<>> before it ran, <<edit>> after
    timed            \* the debounced lint of one document on a clock, in ms

vars == <<objects, documents, queue, running, submitted, started, lastDone, currentDebounce,
          timer, lastArgs, result, orphans, lints, nextLint, documentFixes,
          foldersCache, xoCache, configurationCache, published, diffIn, diffOut, timed>>

caches == <<foldersCache, xoCache, configurationCache>>

serverVars == <<objects, documents, queue, running, submitted, started, lastDone, currentDebounce,
          timer, lastArgs, result, orphans, lints, nextLint, documentFixes,
          foldersCache, xoCache, configurationCache, published>>

-----------------------------------------------------------------------------
(* Bounds *)

\* most tasks pushed to the queue in one run
MaxTasks == 2
\* highest document version a client sends
MaxVersion == 2
\* longest string handed to the diff computation
MaxLen == 3

\* last instant of the clock of the timed model, in ms
MaxTime == 500

(* Program constants *)

DEFAULT_DEBOUNCE == 0

\* debounce(..., {maxWait: 350})
MaxWait == 350

ConcurrencyTwo == 1 + 1
Concurrency == 1

-----------------------------------------------------------------------------
(* Data *)

\* the documents of a client: one directly in the workspace folder f, one in a
\* subdirectory of it
Uris == {"f/a", "f/s/b"}
NoUri == ""
Alphabet == {"a", "b"}

RECURSIVE StringsUpTo(_)
StringsUpTo(n) ==
    IF n = 0 THEN {<<>>}
    ELSE LET shorter == StringsUpTo(n - 1)
         IN  shorter \cup {Append(s, c) : s \in {x \in shorter : Len(x) = n - 1}, c \in Alphabet}

\* texts of the documents and of the linter's output in the server model
DocTexts == {<<>>, <<"a">>}

\* debounce settings a configuration-changed notification carries; <<>> = unset
DebounceInputs == {<<>>, <<0>>, <<200>>}

\* the same, with integers on both sides of the range of the xo.debounce setting
AnyDebounceInputs == {<<>>, <<-1>>, <<0>>, <<200>>, <<350>>, <<351>>, <<1000>>}

\* no document; obj: index of a TextDocument object
NoDoc == [uri |-> NoUri, obj |-> 0]

NoTask == [ticket |-> 0, kind |-> "none", uri |-> NoUri, obj |-> 0,
           diag |-> FALSE, cancelled |-> FALSE]

\* a task; obj: the TextDocument object its closure holds, 0 for none
Task(n, kind, uri, obj, diag) ==
    [ticket |-> n, kind |-> kind, uri |-> uri, obj |-> obj,
     diag |-> diag, cancelled |-> FALSE]

NoOutcome == [st |-> "none", tag |-> "", val |-> <<>>]
Resolved(tag, val) == [st |-> "resolved", tag |-> tag, val |-> val]
Rejected(tag) == [st |-> "rejected", tag |-> tag, val |-> <<>>]

\* the execution record of a task: where it is, and what it did and saw;
\* threw: a call it awaited failed
NewExec(t) ==
    [task |-> t, pc |-> "start", wait |-> 0, calls |-> {}, open |-> FALSE,
     stale |-> FALSE, pendingLint |-> FALSE, cfg |-> "notasked", fixes |-> "notasked",
     edits |-> <<>>, orig |-> <<>>, edited |-> <<>>, output |-> <<>>,
     threw |-> FALSE, outcome |-> NoOutcome]

\* no task settled
Idle == NewExec(NoTask)

\* the fix the document-fixes cache holds under the key of the first diagnostic
TheFix == [s |-> 0, e |-> 0, t |-> <<"a">>]

-----------------------------------------------------------------------------
(* The diff of the formatting handler *)

RECURSIVE PrefixLoop(_, _, _)
PrefixLoop(string0, string1, i) ==
    IF i < Len(string0) /\ i < Len(string1) /\ string0[i + 1] = string1[i + 1]
    THEN PrefixLoop(string0, string1, i + 1)
    ELSE i

RECURSIVE SuffixLoopUnguarded(_, _, _, _)
SuffixLoopUnguarded(string0, string1, i, j) ==
    IF j < Len(string0) /\ j < Len(string1)
       /\ string0[Len(string0) - j] = string1[Len(string1) - j]
    THEN SuffixLoopUnguarded(string0, string1, i, j + 1)
    ELSE j

RECURSIVE SuffixLoop(_, _, _, _)
SuffixLoop(string0, string1, i, j) ==
    IF i + j < Len(string0) /\ i + j < Len(string1)
       /\ string0[Len(string0) - j] = string1[Len(string1) - j]
    THEN SuffixLoop(string0, string1, i, j + 1)
    ELSE j

\* string1.substring(a, b)
Substring(s, a, b) == SubSeq(s, a + 1, b)

\* TextEdit.replace(Range.create(positionAt(i), positionAt(string0.length - j)), newText)
DiffEdit(string0, string1) ==
    LET i == PrefixLoop(string0, string1, 0)
        j == SuffixLoop(string0, string1, i, 0)
    IN  [s |-> i, e |-> Len(string0) - j, t |-> Substring(string1, i, Len(string1) - j)]

\* the text after one edit
ApplyEdit(text, ed) ==
    Substring(text, 0, ed.s) \o ed.t \o Substring(text, ed.e, Len(text))

\* TextDocument.applyEdits for edits sorted by range and not overlapping
RECURSIVE ApplyEdits(_, _)
ApplyEdits(text, edits) ==
    IF edits = <<>> THEN text
    ELSE ApplyEdits(ApplyEdit(text, edits[Len(edits)]), SubSeq(edits, 1, Len(edits) - 1))

\* the fix lists getDocumentFixes returns for a text
FixLists(text) ==
    {<<>>} \cup {<<[s |-> 0, e |-> Len(text), t |-> x]>> : x \in DocTexts}

\* JavaScript truthiness of report.results[0].output
Truthy(output) == output # <<>> /\ output[1] # <<>>

-----------------------------------------------------------------------------
(* Helpers of the server *)

\* this.documents.get(uri), 0 for undefined
DocumentsGet(uri) == IF uri \in Uris THEN documents[uri] ELSE 0

\* document?.version of a TextDocument object, 0 for undefined
VersionOf(obj) == IF obj = 0 THEN 0 ELSE objects[obj].version

\* isDocumentOpen
IsDocumentOpen(uri) == uri # NoUri /\ DocumentsGet(uri) # 0

\* this.documents.all()
OpenDocuments == {u \in Uris : documents[u] # 0}

\* the orders in which a set can be listed
ListsOf(S) == {l \in [1..Cardinality(S) -> S] : {l[i] : i \in DOMAIN l} = S}

IsStaleNever(t) == FALSE
\* event.document.version !== this.documents.get(event.document.uri)?.version
IsStale(t) == VersionOf(t.obj) # VersionOf(DocumentsGet(t.uri))

IsCancelledNever(t) == FALSE
\* token.isCancellationRequested
IsCancelled(t) == t.cancelled

\* what getDocumentConfig returns
Configs == {"undefined", "formatUnset", "enableFalse", "enableTrue"}

ConfigOkAlways(cfg) == TRUE
\* not (typeof config === 'undefined' || !config?.format?.enable)
ConfigOk(cfg) == cfg = "enableTrue"

\* the result of the formatting request once the lint report is in
FormatResult(orig, edits, edited, output) ==
    IF Truthy(output) /\ output[1] # edited
    THEN Resolved("edits", <<DiffEdit(orig, output[1])>>)
    ELSE Resolved("edits", edits)

\* path.dirname(document.uri)
DirName(uri) == CASE uri = "f/a" -> "f" [] uri = "f/s/b" -> "f/s"

\* the workspace folder a document lies under: the key of its entries in the
\* three folder caches
FolderOf(uri) == CASE uri = "f/a" -> "f" [] uri = "f/s/b" -> "f"

\* what a call of getDocumentConfig that returns cfg leaves in the caches: the
\* folder of the document, and its configuration if it has one
GetDocumentConfigCaches(uri, cfg) ==
    IF cfg = "threw" THEN UNCHANGED caches
    ELSE /\ foldersCache' = foldersCache \cup {FolderOf(uri)}
         /\ configurationCache' =
               IF cfg = "undefined" THEN configurationCache
               ELSE configurationCache \cup {FolderOf(uri)}
         /\ UNCHANGED xoCache

SendDiagnosticsNothing(uri, diagnostics) == UNCHANGED published
\* this.connection.sendDiagnostics({uri, diagnostics})
SendDiagnostics(uri, diagnostics) ==
    published' = [published EXCEPT ![uri] = diagnostics]

\* a lint caused by a change notification for uri is scheduled or in flight
ChangeLintPending(uri) ==
    \/ timer /\ lastArgs # NoDoc /\ lastArgs.uri = uri
    \/ \E d \in orphans : d.uri = uri
    \/ \E l \in lints : l.uri = uri /\ l.via \in {"timer", "sync"}

\* a call of lintDocument(doc); fresh: as it starts, the document is open and
\* doc has the version tracked for it
NewLint(doc, via) ==
    [id |-> nextLint + 1, uri |-> doc.uri, obj |-> doc.obj, via |-> via,
     version |-> objects[doc.obj].version,
     fresh |-> (documents[doc.uri] # 0
                /\ objects[doc.obj].version = objects[documents[doc.uri]].version)]

LintInFlight(id) == \E l \in lints : l.id = id

\* calls into the linter collaborator in flight
InFlight ==
    Cardinality(lints) + Cardinality({e \in running : e.pc \in {"config", "fixes", "lint"}})

-----------------------------------------------------------------------------
(* The queue *)

\* this.queue.push(...) of the tasks ts, in order
Push(ts) ==
    /\ queue' = queue \o ts
    /\ submitted' = submitted + Len(ts)

\* the queue starts its next job
CanStart(kind) ==
    /\ queue # <<>>
    /\ Cardinality(running) < Concurrency
    /\ Head(queue).kind = kind

\* the job at the head of the queue, about to run
Starting ==
    LET t == Head(queue)
    IN  [NewExec(t) EXCEPT !.open = (t.uri \in Uris /\ documents[t.uri] # 0),
                           !.stale = (/\ t.obj # 0
                                      /\ \/ documents[t.uri] = 0
                                         \/ objects[t.obj].version
                                               # objects[documents[t.uri]].version),
                           !.pendingLint = ChangeLintPending(t.uri)]

\* the job is taken off the queue and runs to its first await
Begin(e) ==
    /\ queue' = Tail(queue)
    /\ started' = started + 1
    /\ running' = running \cup {e}
    /\ UNCHANGED <<submitted>>
    /\ lastDone' = Idle

\* the job is taken off the queue and runs to its end
BeginAndSettle(e) ==
    /\ queue' = Tail(queue)
    /\ started' = started + 1
    /\ lastDone' = [e EXCEPT !.pc = "done"]
    /\ UNCHANGED <<submitted, running>>

\* a running job resumes
Resume(e, f) ==
    /\ running' = (running \ {e}) \cup {f}
    /\ UNCHANGED <<queue, submitted, started>>
    /\ lastDone' = Idle

\* a running job resumes and runs to its end
Settle(e, f) ==
    /\ running' = running \ {e}
    /\ lastDone' = [f EXCEPT !.pc = "done"]
    /\ UNCHANGED <<queue, submitted, started>>

-----------------------------------------------------------------------------
(* The debounced lint: debounce(this.lintDocument, wait, {maxWait: 350}) *)

\* lintDocument(doc) starts
StartLint(doc, via) ==
    /\ lints' = lints \cup {NewLint(doc, via)}
    /\ nextLint' = nextLint + 1

\* the pending timer of the live debounced instance expires: the trailing call
TimerFire ==
    /\ timer
    /\ timer' = FALSE
    /\ lastArgs' = NoDoc
    /\ IF lastArgs # NoDoc
       THEN StartLint(lastArgs, "timer") /\ result' = nextLint + 1
       ELSE UNCHANGED <<lints, nextLint, result>>
    /\ UNCHANGED <<objects, documents, queue, running, submitted, started,
                   currentDebounce, orphans, documentFixes, diffIn, diffOut, timed>>
    /\ UNCHANGED <<caches, published>>
    /\ lastDone' = Idle

\* the pending timer of a replaced debounced instance expires
OrphanFire(doc) ==
    /\ doc \in orphans
    /\ orphans' = orphans \ {doc}
    /\ StartLint(doc, "timer")
    /\ UNCHANGED <<objects, documents, queue, running, submitted, started,
                   currentDebounce, timer, lastArgs, result, documentFixes,
                   diffIn, diffOut, timed>>
    /\ UNCHANGED <<caches, published>>
    /\ lastDone' = Idle

\* a call of lintDocument returns (ok) or throws; a lint that returns has
\* resolved the folder, the linter module and the configuration of its
\* document, replaces the fixes of the document and publishes its diagnostics;
\* the promise of a lint that throws rejects for the task that awaits it
LintDone(l, ok, fx) ==
    /\ l \in lints
    /\ lints' = lints \ {l}
    /\ running' = {IF e.pc = "await" /\ e.wait = l.id /\ ~ok
                    THEN [e EXCEPT !.threw = TRUE] ELSE e : e \in running}
    /\ IF ok
       THEN /\ documentFixes' = [documentFixes EXCEPT ![l.uri] = fx]
            /\ foldersCache' = foldersCache \cup {FolderOf(l.uri)}
            /\ xoCache' = xoCache \cup {FolderOf(l.uri)}
            /\ configurationCache' = configurationCache \cup {FolderOf(l.uri)}
            /\ SendDiagnostics(l.uri, "some")
       ELSE UNCHANGED <<documentFixes, caches, published>>
    /\ UNCHANGED <<objects, documents, queue, submitted, started,
                   currentDebounce, timer, lastArgs, result, orphans, nextLint,
                   diffIn, diffOut, timed>>
    /\ lastDone' = Idle

-----------------------------------------------------------------------------
(* Notifications *)

\* handleDocumentsOnDidChangeContent: push the task of a change of uri
PushChange(uri, obj) ==
    Push(<<Task(submitted + 1, "change", uri, obj, FALSE)>>)

\* textDocument/didOpen: a TextDocument is created and tracked, and its content
\* change announced
DidOpen(uri) ==
    /\ documents[uri] = 0
    /\ submitted < MaxTasks
    /\ objects' = Append(objects, [uri |-> uri, version |-> 1])
    /\ documents' = [documents EXCEPT ![uri] = Len(objects) + 1]
    /\ PushChange(uri, Len(objects) + 1)
    /\ UNCHANGED <<running, started, currentDebounce, timer, lastArgs, result,
                   orphans, lints, nextLint, documentFixes, diffIn, diffOut, timed>>
    /\ UNCHANGED <<caches, published>>
    /\ lastDone' = Idle

\* textDocument/didChange: the tracked TextDocument is updated in place and its
\* content change announced
DidChange(uri) ==
    /\ documents[uri] # 0
    /\ objects[documents[uri]].version < MaxVersion
    /\ submitted < MaxTasks
    /\ objects' = [objects EXCEPT ![documents[uri]].version = @ + 1]
    /\ PushChange(uri, documents[uri])
    /\ UNCHANGED documents
    /\ UNCHANGED <<running, started, currentDebounce, timer, lastArgs, result,
                   orphans, lints, nextLint, documentFixes, diffIn, diffOut, timed>>
    /\ UNCHANGED <<caches, published>>
    /\ lastDone' = Idle

\* textDocument/didClose: the document is no longer tracked; then
\* handleDocumentsOnDidClose drops the cache entries of the folders without an
\* open document and publishes empty diagnostics for the document
DidClose(uri) ==
    /\ documents[uri] # 0
    /\ documents' = [documents EXCEPT ![uri] = 0]
    /\ LET folders == {DirName(u) : u \in OpenDocuments \ {uri}}
           unused == {f \in foldersCache : f \notin folders}
       IN  /\ foldersCache' = foldersCache \ unused
           /\ xoCache' = xoCache \ unused
           /\ configurationCache' = configurationCache \ unused
    /\ SendDiagnostics(uri, "empty")
    /\ UNCHANGED <<objects, queue, running, submitted, started, currentDebounce, timer,
                   lastArgs, result, orphans, lints, nextLint, documentFixes,
                   diffIn, diffOut, timed>>
    /\ lastDone' = Idle

\* lintDocuments(this.documents.all()): one lint task per open document
LintDocuments(order) ==
    Push([i \in 1..Len(order) |->
            Task(submitted + i, "relint", order[i], documents[order[i]], FALSE)])

KeepConfigurationCache == UNCHANGED configurationCache
\* this.configurationCache.clear()
ClearConfigurationCache == configurationCache' = {}

\* handleDidChangeConfiguration, with settings.xo.debounce = d
HandleDidChangeConfiguration(d) ==
    /\ submitted + Cardinality(OpenDocuments) <= MaxTasks
    /\ IF d # <<>> /\ d[1] # currentDebounce
       THEN /\ currentDebounce' = d[1]
            /\ timer' = FALSE
            /\ lastArgs' = NoDoc
            /\ result' = 0
            /\ orphans' = IF timer /\ lastArgs # NoDoc
                          THEN orphans \cup {lastArgs} ELSE orphans
       ELSE UNCHANGED <<currentDebounce, timer, lastArgs, result, orphans>>
    /\ ClearConfigurationCache
    /\ \E order \in ListsOf(OpenDocuments) : LintDocuments(order)
    /\ UNCHANGED <<objects, documents, running, started, lints, nextLint,
                   documentFixes, foldersCache, xoCache, published, diffIn, diffOut, timed>>
    /\ lastDone' = Idle

\* handleDidChangeWatchedFiles
HandleDidChangeWatchedFiles ==
    /\ OpenDocuments # {}
    /\ submitted + Cardinality(OpenDocuments) <= MaxTasks
    /\ \E order \in ListsOf(OpenDocuments) : LintDocuments(order)
    /\ UNCHANGED <<objects, documents, running, started, currentDebounce, timer,
                   lastArgs, result, orphans, lints, nextLint, documentFixes,
                   diffIn, diffOut, timed>>
    /\ UNCHANGED <<caches, published>>
    /\ lastDone' = Idle

-----------------------------------------------------------------------------
(* Requests *)

\* handleAllFixesRequest: push the task
HandleAllFixesRequest(uri) ==
    /\ submitted < MaxTasks
    /\ Push(<<Task(submitted + 1, "allFixes", uri, 0, FALSE)>>)
    /\ UNCHANGED <<objects, documents, running, started, currentDebounce, timer,
                   lastArgs, result, orphans, lints, nextLint, documentFixes,
                   diffIn, diffOut, timed>>
    /\ UNCHANGED <<caches, published>>
    /\ lastDone' = Idle

\* handleDocumentFormattingRequest: push the task
HandleDocumentFormattingRequest(uri) ==
    /\ submitted < MaxTasks
    /\ Push(<<Task(submitted + 1, "format", uri, 0, FALSE)>>)
    /\ UNCHANGED <<objects, documents, running, started, currentDebounce, timer,
                   lastArgs, result, orphans, lints, nextLint, documentFixes,
                   diffIn, diffOut, timed>>
    /\ UNCHANGED <<caches, published>>
    /\ lastDone' = Idle

\* handleCodeActionRequest: push the task; diag: context.diagnostics is not empty
HandleCodeActionRequest(uri, diag) ==
    /\ submitted < MaxTasks
    /\ Push(<<Task(submitted + 1, "action", uri, 0, diag)>>)
    /\ UNCHANGED <<objects, documents, running, started, currentDebounce, timer,
                   lastArgs, result, orphans, lints, nextLint, documentFixes,
                   diffIn, diffOut, timed>>
    /\ UNCHANGED <<caches, published>>
    /\ lastDone' = Idle

\* the client cancels a request whose task has not started
Cancel(i) ==
    /\ i \in DOMAIN queue
    /\ queue[i].kind \in {"format", "action"}
    /\ ~queue[i].cancelled
    /\ queue' = [queue EXCEPT ![i].cancelled = TRUE]
    /\ UNCHANGED <<objects, documents, running, submitted, started, currentDebounce,
                   timer, lastArgs, result, orphans, lints, nextLint, documentFixes,
                   diffIn, diffOut, timed>>
    /\ UNCHANGED <<caches, published>>
    /\ lastDone' = Idle

-----------------------------------------------------------------------------
(* The queued tasks *)

\* await of what the debounced function returned: the promise of the lint with
\* that id, if one is in flight
AwaitResult(e, id) ==
    IF LintInFlight(id)
    THEN Begin([e EXCEPT !.pc = "await", !.wait = id])
    ELSE BeginAndSettle(e)

\* the task of handleDocumentsOnDidChangeContent
StartChange ==
    /\ CanStart("change")
    /\ LET t == Head(queue)
           doc == [uri |-> t.uri, obj |-> t.obj]
           e == [Starting EXCEPT !.calls = {"debounced"}]
       IN  IF IsStale(t)
           THEN /\ BeginAndSettle(Starting)
                /\ UNCHANGED <<timer, lastArgs, result, lints, nextLint>>
           ELSE \/ \* no timer pending: the call starts one
                   /\ ~timer
                   /\ timer' = TRUE
                   /\ lastArgs' = doc
                   /\ AwaitResult(e, result)
                   /\ UNCHANGED <<result, lints, nextLint>>
                \/ \* a timer is pending and neither wait nor maxWait has passed
                   /\ timer
                   /\ currentDebounce > 0
                   /\ lastArgs' = doc
                   /\ AwaitResult(e, result)
                   /\ UNCHANGED <<timer, result, lints, nextLint>>
                \/ \* a timer is pending and wait or maxWait has passed: the
                   \* call invokes lintDocument itself and restarts the timer
                   /\ timer
                   /\ lastArgs' = NoDoc
                   /\ StartLint(doc, "sync")
                   /\ result' = nextLint + 1
                   /\ Begin([e EXCEPT !.pc = "await", !.wait = nextLint + 1,
                                      !.calls = {"debounced", "lint"}])
                   /\ UNCHANGED timer
    /\ UNCHANGED <<objects, documents, currentDebounce, orphans, documentFixes, diffIn, diffOut, timed>>
    /\ UNCHANGED <<caches, published>>

\* the task lintDocuments pushes for one document
StartRelint ==
    /\ CanStart("relint")
    /\ LET t == Head(queue)
       IN  /\ StartLint([uri |-> t.uri, obj |-> t.obj], "task")
           /\ Begin([Starting EXCEPT !.pc = "await", !.wait = nextLint + 1,
                                     !.calls = {"lint"}])
    /\ UNCHANGED <<objects, documents, currentDebounce, timer, lastArgs, result, orphans,
                   documentFixes, diffIn, diffOut, timed>>
    /\ UNCHANGED <<caches, published>>

\* a task that awaits a lint resumes once the lint has settled, and ends
AwaitDone(e) ==
    /\ e \in running
    /\ e.pc = "await"
    /\ ~LintInFlight(e.wait)
    /\ Settle(e, e)
    /\ UNCHANGED <<objects, documents, currentDebounce, timer, lastArgs, result, orphans, lints,
                   nextLint, documentFixes, diffIn, diffOut, timed>>
    /\ UNCHANGED <<caches, published>>

\* the task of handleAllFixesRequest, to its await of getDocumentFixes
StartAllFixes ==
    /\ CanStart("allFixes")
    /\ Begin([Starting EXCEPT !.pc = "fixes", !.calls = {"fixes"}])
    /\ UNCHANGED <<objects, documents, currentDebounce, timer, lastArgs, result, orphans, lints,
                   nextLint, documentFixes, diffIn, diffOut, timed>>
    /\ UNCHANGED <<caches, published>>

\* getDocumentFixes returns to the all-fixes task: undefined, a fix set, or it throws
AllFixesReturn(e, r, edits) ==
    /\ e \in running
    /\ e.task.kind = "allFixes"
    /\ e.pc = "fixes"
    /\ LET f == [e EXCEPT !.fixes = r]
       IN  CASE r = "undefined" -> Settle(e, [f EXCEPT !.outcome = Resolved("void", <<>>)])
             [] r = "present" -> Settle(e, [f EXCEPT !.edits = edits,
                                                      !.outcome = Resolved("fixes", edits)])
             [] OTHER -> Settle(e, [f EXCEPT !.threw = TRUE, !.outcome = Rejected("error")])
    /\ UNCHANGED <<objects, documents, currentDebounce, timer, lastArgs, result, orphans, lints,
                   nextLint, documentFixes, diffIn, diffOut, timed>>
    /\ UNCHANGED <<caches, published>>

\* the task of handleDocumentFormattingRequest, to its await of getDocumentConfig
StartFormat ==
    /\ CanStart("format")
    /\ LET t == Head(queue)
           e == Starting
       IN  IF ~IsDocumentOpen(t.uri)
           THEN BeginAndSettle(e)
           ELSE IF IsCancelled(t)
           THEN BeginAndSettle([e EXCEPT !.outcome = Rejected("cancelled")])
           ELSE IF DocumentsGet(t.uri) = 0
           THEN BeginAndSettle([e EXCEPT !.outcome = Resolved("edits", <<>>)])
           ELSE Begin([e EXCEPT !.pc = "config", !.calls = {"config"}])
    /\ UNCHANGED <<objects, documents, currentDebounce, timer, lastArgs, result, orphans, lints,
                   nextLint, documentFixes, diffIn, diffOut, timed>>
    /\ UNCHANGED <<caches, published>>

\* getDocumentConfig returns to the formatting task, or throws
ConfigReturn(e, cfg) ==
    /\ e \in running
    /\ e.pc = "config"
    /\ LET f == [e EXCEPT !.cfg = cfg]
       IN  IF cfg = "threw"
           THEN Settle(e, [f EXCEPT !.threw = TRUE, !.outcome = Rejected("error")])
           ELSE IF ~ConfigOk(cfg)
           THEN Settle(e, [f EXCEPT !.outcome = Resolved("edits", <<>>)])
           ELSE Resume(e, [f EXCEPT !.pc = "fixes", !.calls = @ \cup {"fixes"}])
    /\ GetDocumentConfigCaches(e.task.uri, cfg)
    /\ UNCHANGED <<objects, documents, currentDebounce, timer, lastArgs, result, orphans,
                   lints, nextLint, documentFixes, published, diffIn, diffOut, timed>>

\* getDocumentFixes returns to the formatting task, or throws; with fixes the
\* task applies them to a copy of the document and awaits getLintResults
FixesReturn(e, r, orig, edits) ==
    /\ e \in running
    /\ e.task.kind = "format"
    /\ e.pc = "fixes"
    /\ LET f == [e EXCEPT !.fixes = r]
       IN  CASE r = "undefined" ->
                  Settle(e, [f EXCEPT !.outcome = Resolved("edits", <<>>)])
             [] r = "present" ->
                  Resume(e, [f EXCEPT !.pc = "lint", !.calls = @ \cup {"lint"},
                                      !.orig = orig, !.edits = edits,
                                      !.edited = ApplyEdits(orig, edits)])
             [] OTHER -> Settle(e, [f EXCEPT !.threw = TRUE, !.outcome = Rejected("error")])
    /\ UNCHANGED <<objects, documents, currentDebounce, timer, lastArgs, result, orphans, lints,
                   nextLint, documentFixes, diffIn, diffOut, timed>>
    /\ UNCHANGED <<caches, published>>

\* getLintResults returns to the formatting task: a report without output
\* (<<>>) or with one
LintReturn(e, output) ==
    /\ e \in running
    /\ e.pc = "lint"
    /\ Settle(e, [e EXCEPT !.output = output,
                           !.outcome = FormatResult(e.orig, e.edits, e.edited, output)])
    /\ UNCHANGED <<objects, documents, currentDebounce, timer, lastArgs, result, orphans, lints,
                   nextLint, documentFixes, diffIn, diffOut, timed>>
    /\ UNCHANGED <<caches, published>>

LintThrowUncaught(e) ==
    /\ e \in running
    /\ e.pc = "lint"
    /\ Resume(e, [e EXCEPT !.pc = "dead", !.threw = TRUE])
    /\ UNCHANGED <<objects, documents, currentDebounce, timer, lastArgs, result, orphans,
                   lints, nextLint, documentFixes, caches, published, diffIn, diffOut, timed>>

\* getLintResults throws
LintThrow(e) ==
    /\ e \in running
    /\ e.pc = "lint"
    /\ Settle(e, [e EXCEPT !.threw = TRUE, !.outcome = Rejected("error")])
    /\ UNCHANGED <<objects, documents, currentDebounce, timer, lastArgs, result, orphans, lints,
                   nextLint, documentFixes, diffIn, diffOut, timed>>
    /\ UNCHANGED <<caches, published>>

DocumentEditAny(uri) == <<TheFix>>
\* this.documentFixes.get(uri)?.get(utils.computeKey(diagnostic)), <<>> for undefined
DocumentEdit(uri) == IF documentFixes[uri] = "fix" THEN <<TheFix>> ELSE <<>>

\* the task of handleCodeActionRequest
StartAction ==
    /\ CanStart("action")
    /\ LET t == Head(queue)
           e == Starting
       IN  IF ~t.diag
           THEN BeginAndSettle([e EXCEPT !.outcome = Resolved("actions", <<>>)])
           ELSE IF t.uri = NoUri
           THEN BeginAndSettle([e EXCEPT !.outcome = Resolved("actions", <<>>)])
           ELSE IF IsCancelled(t)
           THEN BeginAndSettle([e EXCEPT !.outcome = Rejected("cancelled")])
           ELSE IF DocumentEdit(t.uri) = <<>> \/ DocumentsGet(t.uri) = 0
           THEN BeginAndSettle([e EXCEPT !.outcome = Resolved("actions", <<>>)])
           ELSE BeginAndSettle([e EXCEPT !.outcome = Resolved("actions", DocumentEdit(t.uri))])
    /\ UNCHANGED <<objects, documents, currentDebounce, timer, lastArgs, result, orphans, lints,
                   nextLint, documentFixes, diffIn, diffOut, timed>>
    /\ UNCHANGED <<caches, published>>

-----------------------------------------------------------------------------
(* The diff computation on its own *)

ComputeDiff ==
    /\ diffOut = <<>>
    /\ diffIn # <<>>
    /\ diffOut' = <<DiffEdit(diffIn[1], diffIn[2])>>
    /\ UNCHANGED <<diffIn, serverVars, timed>>

-----------------------------------------------------------------------------
(* The debounced lint on a clock: a stream of change notifications for one    *)
(* document, the queue in front of the debounced call, and the timing of      *)
(* debounce(this.lintDocument, wait, {maxWait: 350}).  Times are in ms; -1    *)
(* stands for undefined.                                                      *)

\* the debounce windows of the timed model
Windows == {100, 200, 350}

\* the time that passes in one step of the clock
Delays == {50}

\* now: the clock; wait: the window of the debounced instance; busy: the task
\* of a request occupies the queue's worker; waiting: change tasks pushed and
\* not started; lastArrival: time of the last change notification; burstStart:
\* time of the first change notification since the last lint; lastCallTime,
\* lastInvokeTime, timerAt (due time of timerId), args (lastArgs is set): the
\* state of the debounced function; lastFire, prevFire: the times of the last
\* two invocations of lintDocument
TimedIdle ==
    [now |-> 0, wait |-> 0, busy |-> FALSE, waiting |-> 0, lastArrival |-> -1,
     burstStart |-> -1, lastCallTime |-> -1, lastInvokeTime |-> 0, timerAt |-> -1,
     args |-> FALSE, lastFire |-> -1, prevFire |-> -1]

Max(a, b) == IF a > b THEN a ELSE b
Min(a, b) == IF a < b THEN a ELSE b

\* lodash shouldInvoke(time) at time c.now
ShouldInvoke(c) ==
    \/ c.lastCallTime = -1
    \/ c.now - c.lastCallTime >= c.wait
    \/ c.now - c.lastInvokeTime >= Max(MaxWait, c.wait)

\* lodash invokeFunc(time): lintDocument is invoked with lastArgs
InvokeFunc(c) ==
    [c EXCEPT !.args = FALSE, !.lastInvokeTime = c.now,
              !.prevFire = c.lastFire, !.lastFire = c.now, !.burstStart = -1]

\* this.lintDocumentDebounced(event.document) at time c.now
DebouncedCall(c) ==
    LET d == [c EXCEPT !.args = TRUE, !.lastCallTime = c.now]
    IN  IF ShouldInvoke(c)
        THEN IF c.timerAt = -1
             THEN [d EXCEPT !.lastInvokeTime = c.now, !.timerAt = c.now + c.wait]
             ELSE InvokeFunc([d EXCEPT !.timerAt = c.now + c.wait])
        ELSE IF c.timerAt = -1
             THEN [d EXCEPT !.timerAt = c.now + c.wait]
             ELSE d

\* lodash timerExpired() at time c.now
TimerExpired(c) ==
    IF ShouldInvoke(c)
    THEN IF c.args
         THEN InvokeFunc([c EXCEPT !.timerAt = -1])
         ELSE [c EXCEPT !.timerAt = -1]
    ELSE [c EXCEPT !.timerAt =
             c.now + Min(c.wait - (c.now - c.lastCallTime),
                         Max(MaxWait, c.wait) - (c.now - c.lastInvokeTime))]

\* a change notification arrives: handleDocumentsOnDidChangeContent pushes its
\* task, which the queue starts at once if no task is pending
TimedChange ==
    /\ timed.lastArrival # timed.now
    /\ LET c == [timed EXCEPT !.lastArrival = timed.now,
                              !.burstStart = IF @ = -1 THEN timed.now ELSE @]
       IN  timed' = IF c.busy \/ c.waiting > 0
                    THEN [c EXCEPT !.waiting = @ + 1]
                    ELSE DebouncedCall(c)
    /\ UNCHANGED <<serverVars, diffIn, diffOut>>

\* the task of a request starts and awaits the linter collaborator
TimedRequest ==
    /\ ~timed.busy
    /\ timed.waiting = 0
    /\ timed' = [timed EXCEPT !.busy = TRUE]
    /\ UNCHANGED <<serverVars, diffIn, diffOut>>

\* the task of the request ends
TimedRequestDone ==
    /\ timed.busy
    /\ timed' = [timed EXCEPT !.busy = FALSE]
    /\ UNCHANGED <<serverVars, diffIn, diffOut>>

\* the queue starts a waiting change task: the debounced call
TimedStartChange ==
    /\ ~timed.busy
    /\ timed.waiting > 0
    /\ timed' = DebouncedCall([timed EXCEPT !.waiting = @ - 1])
    /\ UNCHANGED <<serverVars, diffIn, diffOut>>

\* the timer of the debounced function is due
TimedTimer ==
    /\ timed.timerAt = timed.now
    /\ timed' = TimerExpired(timed)
    /\ UNCHANGED <<serverVars, diffIn, diffOut>>

\* time passes: not beyond a due timer, not while the queue has a task to
\* start, and the next change notification comes less than wait after the last
Tick(d) ==
    /\ timed.now + d <= MaxTime
    /\ timed.timerAt = -1 \/ timed.now + d <= timed.timerAt
    /\ timed.busy \/ timed.waiting = 0
    /\ timed.lastArrival = -1 \/ timed.now + d - timed.lastArrival < timed.wait
    /\ timed' = [timed EXCEPT !.now = @ + d]
    /\ UNCHANGED <<serverVars, diffIn, diffOut>>

-----------------------------------------------------------------------------
(* Specifications *)

Init ==
    /\ objects = <<>>
    /\ documents = [u \in Uris |-> 0]
    /\ queue = <<>>
    /\ running = {}
    /\ submitted = 0
    /\ started = 0
    /\ lastDone = Idle
    /\ currentDebounce = DEFAULT_DEBOUNCE
    /\ timer = FALSE
    /\ lastArgs = NoDoc
    /\ result = 0
    /\ orphans = {}
    /\ lints = {}
    /\ nextLint = 0
    /\ documentFixes = [u \in Uris |-> "absent"]
    /\ foldersCache = {}
    /\ xoCache = {}
    /\ configurationCache = {}
    /\ published = [u \in Uris |-> "none"]
    /\ diffIn = <<>>
    /\ diffOut = <<>>
    /\ timed = TimedIdle

\* the queue starts the job at its head as soon as no job is pending
QueueStep == StartChange \/ StartRelint \/ StartAllFixes \/ StartFormat \/ StartAction

\* a call into the linter collaborator returns or throws, and the task that
\* awaits it resumes
CollaboratorStep ==
    \/ \E e \in running, r \in {"undefined", "present", "threw"}, edits \in FixLists(<<>>) :
          AllFixesReturn(e, r, edits)
    \/ \E e \in running, cfg \in Configs \cup {"threw"} : ConfigReturn(e, cfg)
    \/ \E e \in running, r \in {"undefined", "present", "threw"}, orig \in DocTexts :
          \E edits \in FixLists(orig) : FixesReturn(e, r, orig, edits)
    \/ \E e \in running, output \in {<<>>} \cup {<<x>> : x \in DocTexts} : LintReturn(e, output)
    \/ \E e \in running : LintThrow(e)

Next ==
    \/ \E u \in Uris : DidOpen(u)
    \/ \E u \in Uris : DidChange(u)
    \/ \E u \in Uris : DidClose(u)
    \/ \E u \in Uris : HandleAllFixesRequest(u)
    \/ \E u \in Uris \cup {NoUri} : HandleDocumentFormattingRequest(u)
    \/ \E u \in Uris \cup {NoUri}, diag \in BOOLEAN : HandleCodeActionRequest(u, diag)
    \/ \E i \in DOMAIN queue : Cancel(i)
    \/ QueueStep
    \/ \E e \in running : AwaitDone(e)
    \/ CollaboratorStep
    \/ TimerFire
    \/ \E doc \in orphans : OrphanFire(doc)
    \/ \E l \in lints, ok \in BOOLEAN, fx \in {"nofix", "fix"} : LintDone(l, ok, fx)
    \/ \E d \in DebounceInputs : HandleDidChangeConfiguration(d)
    \/ HandleDidChangeWatchedFiles

Spec == Init /\ [][Next]_vars

\* the event loop runs every continuation that is ready and every timer that
\* is due, and every call into the linter collaborator returns or throws
Fairness ==
    /\ WF_vars(QueueStep)
    /\ WF_vars(CollaboratorStep)
    /\ WF_vars(\E e \in running : AwaitDone(e))
    /\ WF_vars(TimerFire)
    /\ WF_vars(\E doc \in orphans : OrphanFire(doc))
    /\ WF_vars(\E l \in lints, ok \in BOOLEAN, fx \in {"nofix", "fix"} : LintDone(l, ok, fx))

FairSpec == Spec /\ Fairness

\* the server under document and configuration notifications alone, the
\* configuration carrying any debounce
ConfigNext ==
    \/ \E u \in Uris : DidOpen(u)
    \/ \E u \in Uris : DidChange(u)
    \/ \E u \in Uris : DidClose(u)
    \/ \E d \in AnyDebounceInputs : HandleDidChangeConfiguration(d)
    \/ StartChange
    \/ StartRelint
    \/ \E e \in running : AwaitDone(e)
    \/ TimerFire
    \/ \E doc \in orphans : OrphanFire(doc)
    \/ \E l \in lints, ok \in BOOLEAN, fx \in {"nofix", "fix"} : LintDone(l, ok, fx)

ConfigSpec == Init /\ [][ConfigNext]_vars

DiffInit ==
    /\ Init!1 /\ Init!2 /\ Init!3 /\ Init!4 /\ Init!5 /\ Init!6 /\ Init!7 /\ Init!8
    /\ Init!9 /\ Init!10 /\ Init!11 /\ Init!12 /\ Init!13 /\ Init!14 /\ Init!15
    /\ Init!16 /\ Init!17 /\ Init!18 /\ Init!19 /\ Init!22
    /\ diffIn \in StringsUpTo(MaxLen) \X StringsUpTo(MaxLen)
    /\ diffOut = <<>>

DiffNext == ComputeDiff

DiffSpec == DiffInit /\ [][DiffNext]_vars

TimedInit ==
    /\ Init!1 /\ Init!2 /\ Init!3 /\ Init!4 /\ Init!5 /\ Init!6 /\ Init!7 /\ Init!8
    /\ Init!9 /\ Init!10 /\ Init!11 /\ Init!12 /\ Init!13 /\ Init!14 /\ Init!15
    /\ Init!16 /\ Init!17 /\ Init!18 /\ Init!19 /\ Init!20 /\ Init!21
    /\ timed \in {[TimedIdle EXCEPT !.wait = w] : w \in Windows}

TimedNext ==
    \/ TimedChange
    \/ TimedRequest
    \/ TimedRequestDone
    \/ TimedStartChange
    \/ TimedTimer
    \/ \E d \in Delays : Tick(d)

TimedSpec == TimedInit /\ [][TimedNext]_vars

-----------------------------------------------------------------------------
(* Properties *)

\* the tasks that ran in the last step or are running
Observed == running \cup {lastDone}

\* C1: the queue is first-in first-out with one worker: at most one task is
\* executing, it is the one started last, every task submitted before it has
\* settled, and the waiting tasks are the later submissions in submission order.
C1_FifoSerial ==
    /\ Cardinality(running) <= 1
    /\ \A e \in running : e.task.ticket = started
    /\ \A i \in DOMAIN queue : queue[i].ticket = started + i
    /\ started + Len(queue) = submitted

\* a task waits in the queue while an earlier one is suspended at an await
C1_Witness ==
    /\ queue # <<>>
    /\ \E e \in running : e.pc \in {"config", "fixes", "lint", "await"}

\* C2: a formatting request that is not cancelled resolves with an empty edit
\* list whenever a precondition is unmet: the document is not open, the
\* configuration is undefined, formatting is not enabled, or there are no fixes.
C2_EmptyOnUnmetPrecondition ==
    (/\ lastDone.task.kind = "format"
     /\ ~lastDone.task.cancelled
     /\ \/ ~lastDone.open
        \/ lastDone.cfg \in {"undefined", "formatUnset", "enableFalse"}
        \/ lastDone.fixes = "undefined")
    => lastDone.outcome = Resolved("edits", <<>>)

\* C3 as claimed: every formatting or code-action request whose token is
\* cancelled when its task starts is rejected with RequestCancelled, whatever
\* its other parameters.
C3_CancelledAlwaysRejected ==
    (lastDone.task.kind \in {"format", "action"} /\ lastDone.task.cancelled)
    => lastDone.outcome = Rejected("cancelled")

\* the request passes the checks its handler makes before it looks at the token
PassesEarlierChecks(e) ==
    \/ e.task.kind = "format" /\ e.open
    \/ e.task.kind = "action" /\ e.task.diag /\ e.task.uri # NoUri

\* C3 as amended: a formatting or code-action task whose token is cancelled
\* when it starts calls nothing of the linter (no configuration lookup, no fix
\* computation, no lint) and ends at once; the request is rejected with
\* RequestCancelled if it passes the checks made before the token is looked
\* at, and is never resolved with a non-empty result.
C3_CancelledFailFast ==
    \A e \in Observed :
        (e.task.kind \in {"format", "action"} /\ e.task.cancelled) =>
            /\ e = lastDone
            /\ e.calls = {}
            /\ PassesEarlierChecks(e) => e.outcome = Rejected("cancelled")
            /\ e.outcome.st = "resolved" => e.outcome.val = <<>>

\* a cancelled formatting request for an open document was rejected
C3_Witness ==
    /\ lastDone.task.kind = "format"
    /\ lastDone.task.cancelled
    /\ lastDone.open
    /\ lastDone.outcome = Rejected("cancelled")

\* C4: at most one call into the linter collaborator is in flight.
C4_NoOverlap == InFlight <= 1

\* C5: the task of a formatting or code-action request for a document does not
\* start while a lint caused by an earlier change notification for that
\* document is still scheduled or in flight.
C5_RequestAfterLint ==
    \A e \in Observed :
        e.task.kind \in {"format", "action"} => ~e.pendingLint

C7_FreshAtFire ==
    \A l \in lints : l.via = "timer" => l.fresh

\* C8: the edit of the diff applied to string0 gives string1; prefix and suffix
\* do not overlap; equal strings give i = |string0| and an empty span; strings
\* without a common first and last character give i = j = 0.
C8_RoundTrip ==
    diffOut # <<>> =>
        LET A == diffIn[1]
            B == diffIn[2]
            ed == diffOut[1]
            i == ed.s
            j == Len(A) - ed.e
        IN  /\ i >= 0 /\ j >= 0
            /\ i + j <= Len(A)
            /\ i + j <= Len(B)
            /\ ed.t = Substring(B, i, Len(B) - j)
            /\ Substring(A, 0, i) \o ed.t \o Substring(A, Len(A) - j, Len(A)) = B
            /\ A = B => (i = Len(A) /\ ed.s = ed.e)
            /\ (A = <<>> \/ B = <<>> \/ (A[1] # B[1] /\ A[Len(A)] # B[Len(B)]))
                   => (i = 0 /\ j = 0)

\* the diff of two different strings with a common prefix and a common suffix
C8_Witness ==
    /\ diffOut # <<>>
    /\ diffIn[1] # diffIn[2]
    /\ diffOut[1].s > 0
    /\ diffOut[1].e < Len(diffIn[1])
    /\ diffOut[1].e > diffOut[1].s

\* C9: with fixes, the formatting request returns the single edit of the diff
\* when the linter's output differs from the text with the fixes applied, and
\* the fix edits when the output equals that text or is absent.
C9_Selection ==
    (/\ lastDone.task.kind = "format"
     /\ lastDone.fixes = "present"
     /\ lastDone.outcome.st = "resolved")
    => lastDone.outcome.val =
          IF lastDone.output # <<>> /\ lastDone.output[1] # lastDone.edited
          THEN <<DiffEdit(lastDone.orig, lastDone.output[1])>>
          ELSE lastDone.edits

\* C10: a formatting request for an open document whose configuration leaves
\* format.enable unset or false resolves with an empty edit list, and its task
\* calls neither getDocumentFixes nor getLintResults.
C10_FormatDisabled ==
    \A e \in Observed :
        (e.task.kind = "format" /\ e.open /\ e.cfg \in {"formatUnset", "enableFalse"}) =>
            /\ e = lastDone
            /\ e.outcome = Resolved("edits", <<>>)
            /\ e.calls = {"config"}

\* a formatting request met a configuration with format.enable false
C10_Witness ==
    /\ lastDone.task.kind = "format"
    /\ lastDone.open
    /\ lastDone.cfg = "enableFalse"
    /\ lastDone.outcome = Resolved("edits", <<>>)

\* C11: after a close notification for a document has been handled, the
\* document-fixes cache holds no entry for that document.
C11_FixesDeletedOnClose ==
    [][\A u \in Uris :
          (documents[u] # 0 /\ documents'[u] = 0) => documentFixes'[u] = "absent"]_vars

\* C12: the close of the last open document under a folder leaves no entry
\* for the folder in any of the three folder caches, and a close leaves the
\* entries of a folder that still has an open document as they are.
C12_FolderCachesCollected ==
    [][\A u \in Uris :
          (documents[u] # 0 /\ documents'[u] = 0) =>
              LET f == FolderOf(u)
              IN  IF \E v \in Uris : documents'[v] # 0 /\ FolderOf(v) = f
                  THEN /\ f \in foldersCache' <=> f \in foldersCache
                       /\ f \in xoCache' <=> f \in xoCache
                       /\ f \in configurationCache' <=> f \in configurationCache
                  ELSE f \notin foldersCache' \cup xoCache' \cup configurationCache']_vars

\* C13: every close notification for a document publishes empty diagnostics
\* for it, whatever was published for it before and whatever the caches hold.
C13_EmptyDiagnosticsOnClose ==
    [][\A u \in Uris :
          (documents[u] # 0 /\ documents'[u] = 0) => published'[u] = "empty"]_vars

\* a document that had diagnostics and fixes was closed
C13_Witness ==
    \E u \in Uris :
        /\ documents[u] = 0
        /\ published[u] = "empty"
        /\ documentFixes[u] = "fix"

\* C14: a configuration-changed notification leaves the configuration cache
\* empty, leaves the linter-module cache, the folder cache and the
\* document-fixes cache as they are, and pushes one lint task for every open
\* document, for the TextDocument tracked for it.
C14_ConfigurationChanged ==
    [][(\E d \in DebounceInputs : HandleDidChangeConfiguration(d)) =>
          /\ configurationCache' = {}
          /\ UNCHANGED <<xoCache, foldersCache, documentFixes>>
          /\ Len(queue') = Len(queue) + Cardinality(OpenDocuments)
          /\ SubSeq(queue', 1, Len(queue)) = queue
          /\ \A u \in OpenDocuments :
                \E i \in (Len(queue) + 1)..Len(queue') :
                    /\ queue'[i].kind = "relint"
                    /\ queue'[i].uri = u
                    /\ queue'[i].obj = documents[u]]_vars

\* after a configuration-changed notification: no configuration is cached,
\* the linter module and the folder still are, the fix of an open document is
\* still there and its lint task waits in the queue
C14_Witness ==
    /\ configurationCache = {}
    /\ xoCache # {}
    /\ foldersCache # {}
    /\ \E i \in DOMAIN queue :
          /\ queue[i].kind = "relint"
          /\ documents[queue[i].uri] # 0
          /\ documentFixes[queue[i].uri] = "fix"

\* C15: the current debounce interval, which is also the wait of the live
\* debounced instance, lies in 0..350 whatever integers the
\* configuration-changed notifications carried.
C15_DebounceInRange == currentDebounce \in 0..350

\* the tasks that have run to their end
Completed == started - Cardinality(running)

\* C16: a failure of the linter collaborator inside a task rejects the promise
\* of that task's own request and of no other request (a change or lint task
\* has no promise), and every task pushed to the queue still starts and runs
\* to its end.
C16_QueueSurvivesFailures ==
    /\ [](\A e \in Observed :
            /\ e.outcome = Rejected("error") <=>
                  (e.threw /\ e.task.kind \in {"allFixes", "format", "action"})
            /\ e.task.kind \in {"change", "relint"} => e.outcome = NoOutcome)
    /\ \A n \in 1..MaxTasks : (submitted >= n) ~> (Completed >= n)

\* a request failed in the linter and was rejected while a later task waits in
\* the queue
C16_Witness ==
    /\ lastDone.task.kind = "format"
    /\ lastDone.threw
    /\ lastDone.outcome = Rejected("error")
    /\ queue # <<>>

\* C17: the task of a code-action request calls nothing of the linter and
\* leaves the three folder caches and the document-fixes cache as they are; if
\* the request is not cancelled it resolves with no action when it has no
\* diagnostic or no uri, when its document is not open or when no fix is cached
\* under the key of its first diagnostic, and with the action of exactly that
\* fix otherwise.
C17_CodeActionLookup ==
    [][(queue # <<>> /\ Head(queue).kind = "action" /\ started' = started + 1) =>
          LET t == Head(queue)
          IN  /\ lastDone'.task = t
              /\ lastDone'.calls = {}
              /\ UNCHANGED <<caches, documentFixes, lints, nextLint, running, published>>
              /\ ~t.cancelled =>
                    lastDone'.outcome =
                       IF \/ ~t.diag
                          \/ t.uri = NoUri
                          \/ documents[t.uri] = 0
                          \/ documentFixes[t.uri] # "fix"
                       THEN Resolved("actions", <<>>)
                       ELSE Resolved("actions", <<TheFix>>)]_vars

\* a code-action request found the fix of its diagnostic
C17_Witness ==
    /\ lastDone.task.kind = "action"
    /\ ~lastDone.task.cancelled
    /\ lastDone.outcome = Resolved("actions", <<TheFix>>)
    /\ documentFixes[lastDone.task.uri] = "fix"

\* C19: every all-fixes, formatting and code-action request is settled: when
\* its task has run to its end, its promise is resolved or rejected (nothing
\* but the task holds the promise's resolve and reject).
C19_EveryRequestAnswered ==
    (lastDone.task.kind \in {"allFixes", "format", "action"} /\ lastDone.pc = "done")
        => lastDone.outcome.st \in {"resolved", "rejected"}

\* the trailing call of a debounced instance is pending for a document
TrailingPending(uri) ==
    \/ timer /\ lastArgs # NoDoc /\ lastArgs.uri = uri
    \/ \E d \in orphans : d.uri = uri

\* C20: no change is lost by the debounce: the lint pending for a document
\* after a change that passed the staleness check stays pending until
\* lintDocument is invoked for that document, whatever changes of other
\* documents and whatever configuration changes arrive meanwhile.
C20_NoChangeLost ==
    [][\A u \in Uris :
          (TrailingPending(u) /\ ~TrailingPending(u)') =>
              \E l \in lints' \ lints : l.uri = u]_vars

\* C18: with a window of at most 350 ms and change notifications for one
\* document less than the window apart, lintDocument is invoked within 350 ms
\* of the first change notification since the last lint, and two invocations
\* are at least 350 ms apart, also while tasks of requests occupy the queue.
C18_DebounceBound ==
    /\ timed.burstStart # -1 => timed.now - timed.burstStart <= MaxWait
    /\ timed.prevFire # -1 => timed.lastFire - timed.prevFire >= MaxWait

====
